---- MODULE Spec2Model ----
(***************************************************************************)
(* Model of ai_background_load_task_v4.py: a PsychoPy letter-detection     *)
(* experiment.  The script runs top to bottom: dialog, background loading, *)
(* trial generation, instructions, the 40-trial loop, the closing screen   *)
(* and core.quit(); the CSV-writing code follows core.quit().              *)
(*                                                                         *)
(* Time is counted in ticks of 100 ms.  Letter strings are sequences of    *)
(* one-character strings.  Python's random module is modelled by a linear  *)
(* congruential generator whose state is the variable rng; shuffle, choice *)
(* and sample follow CPython's algorithms on top of randbelow.             *)
(***************************************************************************)
EXTENDS Integers, Sequences, FiniteSets, TLC

VARIABLES
    pc,            \* position of the script
    rng,           \* state of the random generator
    exp_info,      \* dialog result: Participant, Session
    bgImages,      \* background_type -> sequence of image paths
    cell,          \* number of (load, background) cells generated so far
    trials,        \* the generated list of conditions
    results,       \* the accumulated trial records
    i,             \* trial_index of the running trial (enumerate start=1)
    buffer,        \* PsychoPy's keyboard event buffer: <<key, time>> pairs
    trial_clock,   \* trial_clock.getTime() in ticks
    img_path,      \* background chosen for the running trial
    bg_image,      \* bg_image.image
    drawn,         \* was bg_image drawn in the running trial
    letters,       \* letter string of the running trial
    response_key,  \* first recorded key of the running trial, or None
    rt,            \* its time stamp, or NoRt
    firstPress,    \* the participant's first listed key press since stimulus onset
    escPressed,    \* has the participant pressed escape since the trial began
    npress,        \* key presses the participant has made since stimulus onset
    active,        \* number of trials in which the participant has pressed a key
    lastPress,     \* index of the last such trial
    window,        \* "open" or "closed"
    start_key,     \* the key that ended the instruction screen, or None
    screen,        \* what the last win.flip() put on the display
    csvfile        \* rows of the output file; <<>> while it does not exist

vars == <<pc, rng, exp_info, bgImages, cell, trials, results, i, buffer,
          trial_clock, img_path, bg_image, drawn, letters, response_key, rt,
          firstPress, escPressed, npress, active, lastPress, window, start_key,
          screen, csvfile>>

\* what start-up sets
setup == <<exp_info, bgImages, cell, trials>>
\* the state of the running trial
trial_state == <<img_path, bg_image, drawn, letters, response_key, rt>>
\* what the participant has done
participant == <<firstPress, escPressed, npress, active, lastPress>>

----------------------------------------------------------------------------
(* Bounds of the model *)

\* seeds 0..MaxSeed of the random generator
MaxSeed == 1
\* the first 0..MaxEmpty background folders hold no image
MaxEmpty == 1
\* image files in a non-empty background folder
NumFiles == 2
\* key presses the participant makes between stimulus onset and the end of a trial
MaxPresses == 2
\* the participant presses keys in at most MaxActive trials of a session
MaxActive == 1
\* and only in the first trial and the last EdgeTrials trials
EdgeTrials == 1
\* duration of one win.flip() in ticks
FrameTicks == 1
\* seeds 0..MaxLetterSeed for the letter-string specification
MaxLetterSeed == 40

----------------------------------------------------------------------------
(* Program constants *)

None == "None"
\* None where an image path is expected
NoImage == <<>>
\* no key event
NoEvent == <<>>
NoRt == -1
EmptyKey == ""
EmptyRt == -2

bgFolder == "backgrounds"
backgroundTypes == <<"ai", "internet", "paper", "solid">>
loads == <<"low", "high">>
target_letter == "X"
Alphabet == <<"A", "B", "C", "D", "E", "F", "G", "H", "I", "J", "K", "L", "M",
              "N", "O", "P", "Q", "R", "S", "T", "U", "V", "W", "X", "Y", "Z">>
\* the comprehension without its "if l != target_letter"
non_target_letters_unfiltered == Alphabet

non_target_letters == SelectSeq(Alphabet, LAMBDA l : l # target_letter)
\* a cell with the ratio 2:3 instead of 3:2
cell_trials_two_present == <<TRUE, TRUE, FALSE, FALSE, FALSE>>

cell_trials == <<TRUE, TRUE, TRUE, FALSE, FALSE>>
StringLen == 6
HighDistractors == 5

JitterMin == 35
JitterMax == 55
StimDur == 2
max_dur == 15

keyList == <<"z", "m", "escape">>
startKeys == <<"space", "escape">>
fieldnames == <<"participant", "session", "trial_index", "load", "background_type",
                "target_present", "letters", "response_key", "rt", "correct">>

----------------------------------------------------------------------------
(* The random generator *)

RngMul == 75
RngInc == 74
RngMod == 65537

NextRng(s) == (s * RngMul + RngInc) % RngMod

\* random._randbelow(n): a value in 0..n-1; the state after the draw is NextRng(s)
randbelow(s, n) == NextRng(s) % n

\* the element of a one-element set; in The({F(a) : a \in {v}}) the value v of
\* one statement is computed once and then used by the next
The(S) == CHOOSE y \in S : TRUE

Swap(x, a, b) == [x EXCEPT ![a] = x[b], ![b] = x[a]]

\* random.shuffle: for k = len-1 down to 1: j = randbelow(k+1); swap x[k], x[j]
RECURSIVE ShuffleFrom(_, _, _)
ShuffleFrom(x, k, s) ==
    IF k < 2 THEN [val |-> x, rng |-> s]
    ELSE The({ShuffleFrom(a.x, k - 1, a.s) :
                 a \in {[x |-> Swap(x, k, randbelow(s, k) + 1), s |-> NextRng(s)]}})

shuffle(x, s) == ShuffleFrom(x, Len(x), s)

\* random.choice(seq) == seq[randbelow(len(seq))]
choice(seq, s) == [val |-> seq[randbelow(s, Len(seq)) + 1], rng |-> NextRng(s)]

\* random.sample, pool branch: result[k] = pool[j]; pool[j] = pool[n-k-1]
RECURSIVE SamplePool(_, _, _, _)
SamplePool(pool, k, res, s) ==
    IF Len(res) = k THEN [val |-> res, rng |-> s]
    ELSE LET n == Len(pool) - Len(res)
             j == randbelow(s, n) + 1
         IN The({SamplePool(a.pool, k, a.res, a.s) :
                    a \in {[pool |-> [pool EXCEPT ![j] = pool[n]],
                             res |-> Append(res, pool[j]),
                             s |-> NextRng(s)]}})

\* random.sample, set branch: redraw an index until it is a new one
RECURSIVE SampleSet(_, _, _, _, _)
SampleSet(pop, k, selected, res, s) ==
    IF Len(res) = k THEN [val |-> res, rng |-> s]
    ELSE LET j == randbelow(s, Len(pop)) + 1
         IN The({SampleSet(pop, k, a.selected, a.res, a.s) :
                    a \in {IF j \in selected
                            THEN [selected |-> selected, res |-> res, s |-> NextRng(s)]
                            ELSE [selected |-> selected \cup {j},
                                  res |-> Append(res, pop[j]),
                                  s |-> NextRng(s)]}})

RECURSIVE CeilLog4(_)
CeilLog4(n) == IF n <= 1 THEN 0 ELSE 1 + CeilLog4((n + 3) \div 4)

\* random.sample chooses the branch by the population size
SampleSetSize(k) == IF k <= 5 THEN 21 ELSE 21 + 4 ^ CeilLog4(k * 3)

\* k draws that may repeat an element
RECURSIVE DrawRepeating(_, _, _, _)
DrawRepeating(pop, k, res, s) ==
    IF Len(res) = k THEN [val |-> res, rng |-> s]
    ELSE DrawRepeating(pop, k, Append(res, pop[randbelow(s, Len(pop)) + 1]), NextRng(s))

sample_with_replacement(pop, k, s) == DrawRepeating(pop, k, <<>>, s)

sample(pop, k, s) ==
    IF Len(pop) <= SampleSetSize(k)
    THEN SamplePool(pop, k, <<>>, s)
    ELSE SampleSet(pop, k, {}, <<>>, s)

\* random.uniform(3.5, 5.5) in ticks
uniform(lo, hi, s) == [val |-> lo + randbelow(s, hi - lo + 1), rng |-> NextRng(s)]

----------------------------------------------------------------------------
(* Helper functions *)

Repeat(c, n) == [k \in 1..n |-> c]

Range(x) == {x[k] : k \in 1..Len(x)}

Count(x, c) == Cardinality({k \in 1..Len(x) : x[k] = c})

make_letter_string(load_type, target_present, s) ==
    IF load_type = "low"
    THEN IF target_present
         THEN [val |-> Repeat(target_letter, StringLen), rng |-> s]
         ELSE LET c == choice(non_target_letters, s)
              IN [val |-> Repeat(c.val, StringLen), rng |-> c.rng]
    ELSE IF target_present
         THEN The({shuffle(<<target_letter>> \o chosen.val, chosen.rng) :
                      chosen \in {sample(non_target_letters, HighDistractors, s)}})
         ELSE The({shuffle(chosen.val, chosen.rng) :
                      chosen \in {sample(non_target_letters, StringLen, s)}})

get_background_image(bg_type, s) ==
    LET files == bgImages[bg_type]
    IN IF files = <<>> THEN [val |-> NoImage, rng |-> s] ELSE choice(files, s)

----------------------------------------------------------------------------
(* Start-up: dialog, window, background loading, trial generation *)

Participants == {"P01"}
ImageExts == {"png", "jpg", "jpeg", "bmp"}

\* f.lower() on the extensions that occur in the modelled folders
Lower(e) == CASE e = "PNG" -> "png" [] e = "JPG" -> "jpg" [] OTHER -> e

\* os.listdir of a background folder holding n images and one text file
Listing(n) ==
    [k \in 1..n |-> [name |-> k, ext |-> IF k % 2 = 1 THEN "png" ELSE "JPG"]]
    \o <<[name |-> 0, ext |-> "txt"]>>

\* the scan of one folder; a missing folder and a folder without images give []
ScanFolder(bg_type, isdir, listing) ==
    IF ~isdir THEN <<>>
    ELSE LET imgs == SelectSeq(listing, LAMBDA f : Lower(f.ext) \in ImageExts)
         IN [k \in 1..Len(imgs) |-> <<bgFolder, bg_type, imgs[k].name>>]

TypeIndex(t) == CHOOSE k \in 1..Len(backgroundTypes) : backgroundTypes[k] = t

InitWith(start, seeds) ==
    /\ pc = start
    /\ rng \in seeds
    /\ exp_info = [Participant |-> "", Session |-> "1"]
    /\ bgImages = [t \in Range(backgroundTypes) |-> <<>>]
    /\ cell = 0
    /\ trials = <<>>
    /\ results = <<>>
    /\ i = 0
    /\ buffer = <<>>
    /\ trial_clock = 0
    /\ img_path = NoImage
    /\ bg_image = NoImage
    /\ drawn = FALSE
    /\ letters = <<>>
    /\ response_key = None
    /\ rt = NoRt
    /\ firstPress = NoEvent
    /\ escPressed = FALSE
    /\ npress = 0
    /\ active = 0
    /\ lastPress = 0
    /\ window = "closed"
    /\ start_key = None
    /\ screen = "blank"
    /\ csvfile = <<>>

Init == InitWith("dialog", 0..MaxSeed)

\* core.quit() is sys.exit(): the statements after it never run
core_quit(next) == "exited"

\* gui.DlgFromDict; if not dlg.OK: core.quit(); then the window is opened
Dialog(ok, name) ==
    /\ pc = "dialog"
    /\ IF ok
       THEN /\ exp_info' = [exp_info EXCEPT !.Participant = name]
            /\ window' = "open"
            /\ pc' = "load"
       ELSE /\ pc' = core_quit("load")
            /\ UNCHANGED <<exp_info, window>>
    /\ UNCHANGED <<rng, bgImages, cell, trials, results, i, buffer, trial_clock,
                   trial_state, participant, start_key, screen, csvfile>>

\* the loop over backgroundTypes that fills bgImages
LoadBackgrounds(nEmpty, missing) ==
    /\ pc = "load"
    /\ bgImages' = [t \in Range(backgroundTypes) |->
                      IF TypeIndex(t) <= nEmpty
                      THEN ScanFolder(t, ~missing, Listing(0))
                      ELSE ScanFolder(t, TRUE, Listing(NumFiles))]
    /\ pc' = "gen"
    /\ UNCHANGED <<rng, exp_info, cell, trials, results, i, buffer, trial_clock,
                   trial_state, participant, window, start_key, screen, csvfile>>

NumCells == Len(loads) * Len(backgroundTypes)

\* one iteration of "for load in loads: for bg_type in backgroundTypes"
GenerateCell ==
    /\ pc = "gen"
    /\ cell < NumCells
    /\ LET load == loads[(cell \div Len(backgroundTypes)) + 1]
           bg_type == backgroundTypes[(cell % Len(backgroundTypes)) + 1]
           sh == shuffle(cell_trials, rng)
       IN /\ trials' = trials \o [k \in 1..Len(sh.val) |->
                                    [load |-> load,
                                     background_type |-> bg_type,
                                     target_present |-> sh.val[k]]]
          /\ rng' = sh.rng
    /\ cell' = cell + 1
    /\ pc' = IF cell + 1 < NumCells THEN "gen" ELSE "shuffle"
    /\ UNCHANGED <<exp_info, bgImages, results, i, buffer, trial_clock,
                   trial_state, participant, window, start_key, screen, csvfile>>

\* random.shuffle(trials); results = []; the instruction screen is drawn and flipped
ShuffleTrials ==
    /\ pc = "shuffle"
    /\ LET sh == shuffle(trials, rng)
       IN trials' = sh.val /\ rng' = sh.rng
    /\ results' = <<>>
    /\ screen' = "instructions"
    /\ pc' = "instructions"
    /\ UNCHANGED <<exp_info, bgImages, cell, i, buffer, trial_clock, trial_state,
                   participant, window, start_key, csvfile>>

\* a loop that stops one trial early
LoopHead_short(k) == IF k < Len(trials) THEN "fixation" ELSE "end"

\* head of "for i, trial in enumerate(trials, start=1)"
LoopHead(k) == IF k <= Len(trials) THEN "fixation" ELSE "end"

\* event.waitKeys(keyList=["space", "escape"]); escape closes and quits
Instructions(key) ==
    /\ pc = "instructions"
    /\ start_key' = key
    /\ IF key = "escape"
       THEN /\ window' = "closed"
            /\ pc' = core_quit("loop")
            /\ i' = i
       ELSE /\ window' = window
            /\ i' = 1
            /\ pc' = LoopHead(1)
    /\ UNCHANGED <<rng, setup, results, buffer, trial_clock, trial_state,
                   participant, screen, csvfile>>

(* The participant: key presses offered to a phase of a trial *)

Keys == {"z", "m", "escape", "a"}

\* press times around the phase boundaries, in ticks since stimulus onset
PressTimes == {0, StimDur, max_dur - 1, max_dur}

\* first poll time at or after a deadline, for polls every FrameTicks from 0
PollEnd(deadline) == ((deadline + FrameTicks - 1) \div FrameTicks) * FrameTicks

\* key events: a key of keyList at any press time, the other key right at onset
Events(times) ==
    {e \in Keys \X times : e[1] \in {"z", "m", "escape"} \/ e[2] = 0}

RECURSIVE PressSeqs(_, _)
PressSeqs(times, n) ==
    IF n = 0 THEN {<<>>}
    ELSE LET shorter == PressSeqs(times, n - 1)
         IN shorter \cup {Append(p, e) : p \in shorter, e \in Events(times)}

Ordered(p) == \A a \in 1..Len(p), b \in 1..Len(p) : a < b => p[a][2] <= p[b][2]

\* the key presses that can happen between two clock values, in press order
Presses(from, to, n) ==
    {p \in PressSeqs({t \in PressTimes : from <= t /\ t <= to}, n) : Ordered(p)}

\* the trials in which the participant may press keys
CanPress ==
    /\ i = 1 \/ i > Len(trials) - EdgeTrials
    /\ lastPress = i \/ active < MaxActive

\* the earliest press of a key of keyList, among those so far and those of p
FirstListed(first, p) ==
    LET listed == SelectSeq(p, LAMBDA e : \E n \in 1..Len(keyList) : keyList[n] = e[1])
    IN IF first = NoEvent /\ listed # <<>> THEN listed[1] ELSE first

NotePress(p) ==
    IF p = <<>> \/ lastPress = i
    THEN UNCHANGED <<active, lastPress>>
    ELSE active' = active + 1 /\ lastPress' = i

----------------------------------------------------------------------------
HasEscape(p) == \E n \in 1..Len(p) : p[n][1] = "escape"

----------------------------------------------------------------------------
(* The trial loop *)

InList(k, list) == \E n \in 1..Len(list) : list[n] = k

\* event.getKeys(keyList, timeStamped=trial_clock) at clock value t: the listed
\* keys pressed so far, in press order; they leave the buffer
getKeys_any_key(buf, list, t) == SelectSeq(buf, LAMBDA e : e[2] <= t)

getKeys(buf, list, t) == SelectSeq(buf, LAMBDA e : InList(e[1], list) /\ e[2] <= t)

afterGetKeys(buf, list, t) ==
    SelectSeq(buf, LAMBDA e : ~(InList(e[1], list) /\ e[2] <= t))

\* the assignment without "and response_key is None"
Record_overwrite(keys, resp) ==
    IF keys # <<>> THEN [key |-> keys[1][1], rt |-> keys[1][2]] ELSE resp

\* "if keys and response_key is None: response_key, rt = keys[0]"
Record(keys, resp) ==
    IF keys # <<>> /\ resp.key = None
    THEN [key |-> keys[1][1], rt |-> keys[1][2]]
    ELSE resp

\* a call that leaves the buffer as it is
clearEvents_keeps(buf) == buf

\* event.clearEvents(): everything leaves the buffer
clearEvents(buf) == <<>>

\* trial_clock.reset() at clock value t: the time stamps getKeys gives for the
\* events still in the buffer are counted from the new zero
reset(buf, t) == [k \in 1..Len(buf) |-> <<buf[k][1], buf[k][2] - t>>]

\* Fixation: trial_clock.reset(); jitter = random.uniform(3.5, 5.5); draw and
\* flip until it has passed.
\* Nothing reads the keyboard; what is pressed stays in the event buffer.
Fixation(pressed) ==
    /\ pc = "fixation"
    /\ pressed # <<>> => CanPress
    /\ NotePress(pressed)
    /\ escPressed' = HasEscape(pressed)
    /\ LET jitter == uniform(JitterMin, JitterMax, rng)
       IN /\ rng' = jitter.rng
          /\ trial_clock' = PollEnd(jitter.val)
    /\ buffer' = reset(buffer, trial_clock) \o pressed
    /\ screen' = "fixation"
    /\ pc' = "onset"
    /\ UNCHANGED <<setup, results, i, trial_state, firstPress, npress, window,
                   start_key, csvfile>>

\* choose the background, make the letter string, clearEvents, reset the clock
Onset ==
    /\ pc = "onset"
    /\ LET trial == trials[i]
           img == get_background_image(trial.background_type, rng)
           str == make_letter_string(trial.load, trial.target_present, img.rng)
       IN /\ img_path' = img.val
          /\ bg_image' = img.val
          /\ letters' = str.val
          /\ rng' = str.rng
    /\ buffer' = reset(clearEvents(buffer), trial_clock)
    /\ trial_clock' = 0
    /\ rt' = NoRt
    /\ response_key' = None
    /\ drawn' = FALSE
    /\ firstPress' = NoEvent
    /\ npress' = 0
    /\ pc' = "stimulus"
    /\ UNCHANGED <<setup, results, i, escPressed, active, lastPress, window,
                   start_key, screen, csvfile>>

\* a draw that does not look at img_path
DrawsBackground_always(path) == TRUE

\* "if img_path is not None: bg_image.draw()"
DrawsBackground(path) == path # NoImage

\* a stimulus phase that stops at the first recorded response
Part1Cond_until_response(t, resp) == t < StimDur /\ resp.key = None

\* "while trial_clock.getTime() < 0.2"
Part1Cond(t, resp) == t < StimDur

\* a deadline tested with <=
Part2Cond_late(t, resp) == t <= max_dur /\ resp.key = None

\* "while trial_clock.getTime() < max_dur and response_key is None"
Part2Cond(t, resp) == t < max_dur /\ resp.key = None

\* one loop iteration begun at clock value t: draw, win.flip(), getKeys, record
Poll(t, buf, resp, drw) ==
    LET t2 == t + FrameTicks
        keys == getKeys(buf, keyList, t2)
    IN [t |-> t2,
        buf |-> afterGetKeys(buf, keyList, t2),
        resp |-> Record(keys, resp),
        drw |-> drw \/ DrawsBackground(img_path)]

\* Part 1: letters over the background; iterations while Part1Cond
RECURSIVE Part1(_, _, _, _)
Part1(t, buf, resp, drw) ==
    IF Part1Cond(t, resp)
    THEN The({Part1(st.t, st.buf, st.resp, st.drw) : st \in {Poll(t, buf, resp, drw)}})
    ELSE [t |-> t, buf |-> buf, resp |-> resp, drw |-> drw]

\* Part 2: the background alone; iterations while Part2Cond
RECURSIVE Part2(_, _, _, _)
Part2(t, buf, resp, drw) ==
    IF Part2Cond(t, resp)
    THEN The({Part2(st.t, st.buf, st.resp, st.drw) : st \in {Poll(t, buf, resp, drw)}})
    ELSE [t |-> t, buf |-> buf, resp |-> resp, drw |-> drw]

\* what a phase of polling leaves behind
AfterPolling(r, pressed) ==
    /\ trial_clock' = r.t
    /\ buffer' = r.buf
    /\ response_key' = r.resp.key
    /\ rt' = r.resp.rt
    /\ drawn' = r.drw
    /\ firstPress' = FirstListed(firstPress, pressed)
    /\ escPressed' = (escPressed \/ HasEscape(pressed))
    /\ npress' = npress + Len(pressed)
    /\ NotePress(pressed)
    /\ UNCHANGED <<rng, setup, results, i, img_path, bg_image, letters, window,
                   start_key, csvfile>>

StimulusPhase(pressed) ==
    /\ pc = "stimulus"
    /\ pressed # <<>> => CanPress
    /\ AfterPolling(Part1(trial_clock, buffer \o pressed,
                          [key |-> response_key, rt |-> rt], drawn), pressed)
    /\ screen' = "letters"
    /\ pc' = "post"

PostStimulus(pressed) ==
    /\ pc = "post"
    /\ pressed # <<>> => CanPress /\ response_key = None
    /\ AfterPolling(Part2(trial_clock, buffer \o pressed,
                          [key |-> response_key, rt |-> rt], drawn), pressed)
    /\ screen' = IF trial_clock' > trial_clock THEN "background" ELSE screen
    /\ pc' = "endtrial"

\* the two response keys exchanged
Score_keys_swapped(target_present, key) ==
    IF key = None THEN 0
    ELSE IF target_present /\ key = "m" THEN 1
    ELSE IF ~target_present /\ key = "z" THEN 1
    ELSE 0

\* "Determine correctness"
Score(target_present, key) ==
    IF key = None THEN 0
    ELSE IF target_present /\ key = "z" THEN 1
    ELSE IF ~target_present /\ key = "m" THEN 1
    ELSE 0

\* int(target_present)
int(b) == IF b THEN 1 ELSE 0

\* records numbered from 0
TrialRecord_zero_based(trial, idx, str, key, time) ==
    [participant |-> exp_info.Participant,
     session |-> exp_info.Session,
     trial_index |-> idx - 1,
     load |-> trial.load,
     background_type |-> trial.background_type,
     target_present |-> int(trial.target_present),
     letters |-> str,
     response_key |-> IF key # None THEN key ELSE EmptyKey,
     rt |-> IF time # NoRt THEN time ELSE EmptyRt,
     correct |-> Score(trial.target_present, key)]

\* results.append({...})
TrialRecord(trial, idx, str, key, time) ==
    [participant |-> exp_info.Participant,
     session |-> exp_info.Session,
     trial_index |-> idx,
     load |-> trial.load,
     background_type |-> trial.background_type,
     target_present |-> int(trial.target_present),
     letters |-> str,
     response_key |-> IF key # None THEN key ELSE EmptyKey,
     rt |-> IF time # NoRt THEN time ELSE EmptyRt,
     correct |-> Score(trial.target_present, key)]

\* a loop without the escape check
IsCancel_never(key) == FALSE

\* does the escape check leave the loop
IsCancel(key) == key = "escape"

\* the escape check, scoring, results.append and the step to the next trial
EndTrial ==
    /\ pc = "endtrial"
    /\ IF IsCancel(response_key)
       THEN /\ pc' = "end"
            /\ UNCHANGED <<results, i>>
       ELSE /\ results' = Append(results,
                             TrialRecord(trials[i], i, letters, response_key, rt))
            /\ i' = i + 1
            /\ pc' = LoopHead(i + 1)
    /\ UNCHANGED <<rng, setup, buffer, trial_clock, trial_state, participant,
                   window, start_key, screen, csvfile>>

----------------------------------------------------------------------------
(* End of the experiment and the result file *)

\* csv.DictWriter: the header row, then one row per record in fieldnames order
Row(r) == <<r.participant, r.session, r.trial_index, r.load, r.background_type,
            r.target_present, r.letters, r.response_key, r.rt, r.correct>>

WriteCsv(rs) == <<fieldnames>> \o [k \in 1..Len(rs) |-> Row(rs[k])]

\* thanks_text, core.wait(3.0), win.close(), core.quit(); the CSV code comes after
EndExperiment ==
    /\ pc = "end"
    /\ screen' = "thanks"
    /\ window' = "closed"
    /\ LET after == core_quit("save")
       IN IF after = "save"
          THEN csvfile' = WriteCsv(results) /\ pc' = "saved"
          ELSE csvfile' = csvfile /\ pc' = after
    /\ UNCHANGED <<rng, setup, results, i, buffer, trial_clock, trial_state,
                   participant, start_key>>

FixationPresses == {<<>>} \cup {<<<<k, 0>>>> : k \in Keys}

\* what can be pressed from stimulus onset to the end of the stimulus phase
StimulusPresses == Presses(0, PollEnd(StimDur), MaxPresses)

Next ==
    \/ \E ok \in BOOLEAN, name \in Participants : Dialog(ok, name)
    \/ \E n \in 0..MaxEmpty, missing \in BOOLEAN : LoadBackgrounds(n, missing)
    \/ GenerateCell
    \/ ShuffleTrials
    \/ \E key \in Range(startKeys) : Instructions(key)
    \/ \E pressed \in FixationPresses : Fixation(pressed)
    \/ Onset
    \/ \E pressed \in StimulusPresses : StimulusPhase(pressed)
    \/ \E pressed \in Presses(trial_clock + 1, PollEnd(max_dur), MaxPresses - npress) :
            PostStimulus(pressed)
    \/ EndTrial
    \/ EndExperiment

Spec == Init /\ [][Next]_vars

\* a step of the trial loop: none of them waits for a person
LoopStep ==
    \/ \E pressed \in FixationPresses : Fixation(pressed)
    \/ Onset
    \/ \E pressed \in StimulusPresses : StimulusPhase(pressed)
    \/ \E pressed \in Presses(trial_clock + 1, PollEnd(max_dur), MaxPresses - npress) :
            PostStimulus(pressed)
    \/ EndTrial

\* one session: one seed, every background folder holding its images
InitLive == InitWith("dialog", {0})

NextLive ==
    \/ \E ok \in BOOLEAN, name \in Participants : Dialog(ok, name)
    \/ LoadBackgrounds(0, FALSE)
    \/ GenerateCell
    \/ ShuffleTrials
    \/ \E key \in Range(startKeys) : Instructions(key)
    \/ LoopStep
    \/ EndExperiment

\* the interpreter keeps executing the loop while the clock advances
LiveSpec == InitLive /\ [][NextLive]_vars /\ WF_vars(LoopStep)

----------------------------------------------------------------------------
(* Sessions of a participant who presses nothing, for many seeds *)

MaxGenSeed == 24

InitGen == InitWith("dialog", 0..MaxGenSeed)

NextGen ==
    \/ \E ok \in BOOLEAN, name \in Participants : Dialog(ok, name)
    \/ \E n \in 0..MaxEmpty, missing \in BOOLEAN : LoadBackgrounds(n, missing)
    \/ GenerateCell
    \/ ShuffleTrials
    \/ \E key \in Range(startKeys) : Instructions(key)
    \/ Fixation(<<>>)
    \/ Onset
    \/ StimulusPhase(<<>>)
    \/ PostStimulus(<<>>)
    \/ EndTrial
    \/ EndExperiment

GenSpec == InitGen /\ [][NextGen]_vars

----------------------------------------------------------------------------
(* make_letter_string on its own: calls with every (load, target_present) *)

MaxCalls == 2

InitLetters == InitWith("letters", 0..MaxLetterSeed)

\* the i-th call: letters is the string made for the condition trials[i]
MakeLetters(load_type, target_present) ==
    /\ pc = "letters"
    /\ i < MaxCalls
    /\ LET str == make_letter_string(load_type, target_present, rng)
       IN letters' = str.val /\ rng' = str.rng
    /\ trials' = Append(trials, [load |-> load_type,
                                 background_type |-> backgroundTypes[1],
                                 target_present |-> target_present])
    /\ i' = i + 1
    /\ UNCHANGED <<pc, exp_info, bgImages, cell, results, buffer, trial_clock,
                   img_path, bg_image, drawn, response_key, rt, participant,
                   window, start_key, screen, csvfile>>

NextLetters == \E l \in Range(loads), p \in BOOLEAN : MakeLetters(l, p)

LetterSpec == InitLetters /\ [][NextLetters]_vars

----------------------------------------------------------------------------
(* Properties *)

\* the trial loop was left by the escape check
Cancelled == pc \in {"end", "exited"} /\ response_key = "escape"

\* the process has ended after the trial loop
LoopExited == pc = "exited" /\ cell = NumCells /\ i >= 1

IsPrefix(a, b) == Len(a) <= Len(b) /\ \A k \in 1..Len(a) : a[k] = b[k]

\* C1: when the escape key is recorded as the response of trial i and the session
\* stops, the process ends with the output file holding one row for each of the
\* records of trials 1..i-1.
C1_CancelledSessionSaved ==
    (LoopExited /\ Cancelled /\ results # <<>>) =>
        /\ Len(csvfile) = Len(results) + 1
        /\ \A k \in 1..Len(results) : csvfile[k + 1] = Row(results[k])

\* C2: after all 40 trials have completed without cancellation the process ends
\* with the output file holding the header row and 40 rows in trial order.
C2_CompleteSessionSaved ==
    (LoopExited /\ ~Cancelled /\ Len(results) = 40) =>
        /\ Len(csvfile) = 41
        /\ csvfile[1] = fieldnames
        /\ \A k \in 1..40 : csvfile[k + 1] = Row(results[k])

CellCount(ts, load, bg_type, present) ==
    Cardinality({k \in 1..Len(ts) : /\ ts[k].load = load
                                    /\ ts[k].background_type = bg_type
                                    /\ ts[k].target_present = present})

Balanced(ts) ==
    /\ Len(ts) = 40
    /\ \A load \in {"low", "high"}, bg_type \in {"ai", "internet", "paper", "solid"} :
          /\ CellCount(ts, load, bg_type, TRUE) = 3
          /\ CellCount(ts, load, bg_type, FALSE) = 2

\* the trial list has been generated and shuffled
Generated == cell = NumCells /\ pc # "shuffle"

\* C3: once generated, the trial list has 40 conditions, 5 per (load,
\* background_type) pair, 3 of them target-present and 2 target-absent, and no
\* later step changes the list.
C3_TrialListBalanced ==
    [][/\ Generated' => Balanced(trials')
       /\ Generated => trials' = trials]_vars

C3_Witness ==
    /\ pc = "end"
    /\ Len(results) = 40
    /\ Balanced(trials)
    /\ trials[1].load = "high"
    /\ trials[40].background_type # "solid"

\* C4: the correct field of every record is 1 exactly when the target was present
\* and the key is z, or the target was absent and the key is m; it is 0 otherwise,
\* also when there is no response.
C4_ScoringTable ==
    \A k \in 1..Len(results) :
        LET r == results[k]
            present == trials[k].target_present
        IN /\ r.target_present = (IF present THEN 1 ELSE 0)
           /\ (present /\ r.response_key = "z") => r.correct = 1
           /\ (present /\ r.response_key = "m") => r.correct = 0
           /\ (~present /\ r.response_key = "m") => r.correct = 1
           /\ (~present /\ r.response_key = "z") => r.correct = 0
           /\ r.response_key = "" => r.correct = 0
           /\ r.correct \in {0, 1}

C4_Witness ==
    /\ \E k \in 1..Len(results) : results[k].correct = 1
    /\ \E k \in 1..Len(results) :
          results[k].response_key = "" /\ results[k].correct = 0

\* C5: a press of the escape key at any point of a trial aborts the trial and
\* the session: no record is appended for that trial and no later trial starts.
C5_CancelAtAnyPoint ==
    [][escPressed => (results' = results /\ i' = i)]_vars

\* C6: within a trial the first key wins: a recorded response is never replaced,
\* and the recorded key and time are those of the participant's earliest press
\* of a listed key.
C6_FirstKeyWins ==
    [][/\ (response_key # None /\ pc \in {"stimulus", "post", "endtrial"}) =>
              (response_key' = response_key /\ rt' = rt)
       /\ pc' \in {"post", "endtrial"} =>
              /\ (response_key' = None) <=> (firstPress' = NoEvent)
              /\ response_key' # None => firstPress' = <<response_key', rt'>>]_vars

C6_Witness ==
    /\ pc = "post"
    /\ npress >= 2
    /\ firstPress = <<"z", 0>>
    /\ response_key = "z"
    /\ rt = 0

Distinct(x) == \A a \in 1..Len(x), b \in 1..Len(x) : a # b => x[a] # x[b]

\* C7 as stated: length 6, with the target exactly once when target_present and
\* not at all otherwise, for both loads.
C7_TargetOnceOrAbsent ==
    (pc = "letters" /\ i >= 1) =>
        /\ Len(letters) = 6
        /\ Count(letters, "X") = (IF trials[i].target_present THEN 1 ELSE 0)

\* C7 amended: length 6; the target occurs once in a high-load target-present
\* string, 6 times in a low-load target-present string, and never when the
\* target is absent.
C7_TargetCount ==
    (pc = "letters" /\ i >= 1) =>
        /\ Len(letters) = 6
        /\ Count(letters, "X") =
              (IF ~trials[i].target_present THEN 0
               ELSE IF trials[i].load = "high" THEN 1 ELSE 6)

C7_Witness ==
    /\ pc = "letters"
    /\ i >= 1
    /\ trials[i].load = "low"
    /\ trials[i].target_present
    /\ Count(letters, "X") = 6

NonTargets == {Alphabet[k] : k \in 1..Len(Alphabet)} \ {"X"}

\* C8: the four-case table: low and present is the target 6 times; low and
\* absent is one non-target letter 6 times; high and present is the target and 5
\* pairwise distinct non-target letters in some order; high and absent is 6
\* pairwise distinct non-target letters.
C8_FourCaseTable ==
    (pc = "letters" /\ i >= 1) =>
        LET c == trials[i]
        IN /\ Len(letters) = 6
           /\ (c.load = "low" /\ c.target_present) =>
                  \A k \in 1..6 : letters[k] = "X"
           /\ (c.load = "low" /\ ~c.target_present) =>
                  \E l \in NonTargets : \A k \in 1..6 : letters[k] = l
           /\ (c.load = "high" /\ c.target_present) =>
                  /\ Distinct(letters)
                  /\ Count(letters, "X") = 1
                  /\ Range(letters) \ {"X"} \subseteq NonTargets
           /\ (c.load = "high" /\ ~c.target_present) =>
                  /\ Distinct(letters)
                  /\ Range(letters) \subseteq NonTargets

C8_Witness ==
    /\ pc = "letters"
    /\ i >= 1
    /\ trials[i].load = "high"
    /\ trials[i].target_present
    /\ letters[1] # "X"
    /\ Count(letters, "X") = 1

\* C9: when the escape check stops the session in trial i, the result sequence
\* holds the i-1 records of trials 1..i-1 and none for trial i; records are only
\* ever appended, and none is appended once the session is cancelled.
C9_CancelKeepsPriorRecords ==
    [][/\ IsPrefix(results, results')
       /\ Cancelled' =>
              /\ Len(results') = i' - 1
              /\ \A k \in 1..Len(results') : results'[k].trial_index = k
              /\ results' = results]_vars

C9_Witness == Cancelled /\ i = 40 /\ Len(results) = 39

LoopLeft == pc \in {"end", "exited"}

\* C11: once the start key has been pressed no wait blocks for ever: fixation ends
\* by its drawn duration (at most 5.5 s), the stimulus phase ends at 200 ms, the
\* post-stimulus phase ends at a response or at 1500 ms, the loop runs at most 40
\* trials, so the program eventually leaves the trial loop whatever is pressed.
C11_LoopTerminates ==
    /\ [](pc = "onset" => trial_clock <= PollEnd(JitterMax))
    /\ [](pc = "post" => trial_clock = PollEnd(StimDur))
    /\ [](pc = "endtrial" =>
            /\ trial_clock <= PollEnd(max_dur)
            /\ response_key = None => trial_clock = PollEnd(max_dur))
    /\ [](i <= 41 /\ Len(results) <= 40)
    /\ (start_key = "space") ~> LoopLeft

\* the loop is left after 40 trials in which keys were pressed
C11_Witness ==
    /\ pc = "end" /\ start_key = "space"
    /\ Len(results) = 40 /\ active >= 1 /\ response_key # "escape"

\* the image pool of the running trial's background type
Pool == bgImages[trials[i].background_type]

\* the key a record stands for
KeyOf(r) == IF r.response_key = EmptyKey THEN None ELSE r.response_key

\* C12: when the pool of a trial's background type is empty, no image is chosen
\* and no background is drawn in the stimulus and post-stimulus phases of that
\* trial; the trial still runs its phases and is scored by the usual table; a
\* trial whose pool is not empty draws an image of its own pool.
C12_EmptyPoolFallback ==
    /\ pc \in {"stimulus", "post", "endtrial"} =>
          /\ Len(letters) = StringLen
          /\ IF Pool = <<>>
             THEN img_path = NoImage /\ bg_image = NoImage /\ ~drawn
             ELSE /\ img_path \in Range(Pool)
                  /\ bg_image = img_path
                  /\ drawn = (pc # "stimulus")
    /\ pc = "endtrial" => trial_clock >= StimDur
    /\ \A k \in 1..Len(results) :
          bgImages[trials[k].background_type] = <<>> =>
              /\ results[k].trial_index = k
              /\ results[k].correct = Score(trials[k].target_present, KeyOf(results[k]))

\* a trial with an empty pool was answered and recorded, and a later trial has
\* drawn an image of its own pool
C12_Witness ==
    /\ pc = "endtrial" /\ drawn /\ img_path \in Range(Pool)
    /\ \E k \in 1..Len(results) :
          /\ bgImages[trials[k].background_type] = <<>>
          /\ results[k].response_key \in {"z", "m"}

\* a trial has started
TrialStarted ==
    \/ pc \in {"fixation", "onset", "stimulus", "post", "endtrial"}
    \/ i >= 1
    \/ results # <<>>
    \/ screen \in {"fixation", "letters", "background", "thanks"}

\* the display changes the session order allows
ScreenOrder ==
    {<<"blank", "instructions">>, <<"instructions", "fixation">>,
     <<"fixation", "letters">>, <<"letters", "background">>,
     <<"letters", "fixation">>, <<"background", "fixation">>,
     <<"letters", "thanks">>, <<"background", "thanks">>}

\* C13: the session runs instructions, trials, closing message, in that order:
\* no trial starts before space is pressed at the instruction screen; escape at
\* the instruction screen ends the program with no trial run and no record; the
\* closing message is shown only after the trial loop has ended, after 40 trials
\* or by the escape check; no result file is written before the closing message.
C13_SessionOrder ==
    /\ [](TrialStarted => start_key = "space")
    /\ [](start_key = "escape" =>
            /\ pc = "exited" /\ window = "closed"
            /\ i = 0 /\ results = <<>> /\ screen = "instructions")
    /\ [](screen = "thanks" =>
            /\ pc \notin {"fixation", "onset", "stimulus", "post", "endtrial"}
            /\ response_key = "escape" \/ Len(results) = 40)
    /\ [](csvfile # <<>> => screen = "thanks")
    /\ [][screen' # screen => <<screen, screen'>> \in ScreenOrder]_vars
    /\ [][screen = "thanks" => (screen' = "thanks" /\ results' = results)]_vars

\* the closing message is on the display after a cancellation in the last trial
C13_Witness ==
    /\ screen = "thanks" /\ start_key = "space"
    /\ response_key = "escape" /\ Len(results) = 39

\* C15: a response is recorded only if its key was pressed before 1500 ms from
\* stimulus onset: every recorded rt satisfies 0 <= rt < 1.5 s, and a trial whose
\* first listed key was pressed at or after the deadline has no response.
C15_ResponseBeforeDeadline ==
    /\ response_key # None => (0 <= rt /\ rt < max_dur)
    /\ \A k \in 1..Len(results) :
          results[k].rt # EmptyRt => (0 <= results[k].rt /\ results[k].rt < max_dur)
    /\ (pc = "endtrial" /\ firstPress # NoEvent /\ firstPress[2] >= max_dur) =>
          response_key = None

\* C16: no input is collected in the fixation phase: what is pressed during
\* fixation, or is left in the buffer by the previous trial, is cleared before
\* stimulus onset; it is never polled, and never becomes the response of this
\* trial or of a later one (a recorded response is a press made after onset).
C16_NoInputInFixation ==
    /\ pc = "stimulus" => buffer = <<>>
    /\ pc \in {"post", "endtrial"} => \A n \in 1..Len(buffer) : buffer[n][2] >= 0
    /\ pc \in {"stimulus", "post", "endtrial"} =>
          /\ response_key # None => (rt >= 0 /\ <<response_key, rt>> = firstPress)
          /\ firstPress = NoEvent => response_key = None
    /\ \A k \in 1..Len(results) : results[k].rt # EmptyRt => results[k].rt >= 0

\* escape was pressed during fixation and nothing after it: the trial has run
\* its phases without a response
C16_Witness ==
    /\ pc = "endtrial" /\ escPressed /\ npress = 0
    /\ response_key = None /\ trial_clock = PollEnd(max_dur)

\* C17: the stimulus phase lasts the full 200 ms whatever is recorded in it; the
\* post-stimulus loop runs only when no response was recorded in the stimulus
\* phase, and then ends at the first poll that records one or at the deadline; a
\* trial answered in the first 200 ms goes from the stimulus phase straight to
\* the escape check.
C17_PhaseTiming ==
    [][/\ pc = "stimulus" =>
            /\ pc' = "post"
            /\ trial_clock' >= StimDur /\ trial_clock' = PollEnd(StimDur)
       /\ (pc = "post" /\ response_key # None) =>
            /\ pc' = "endtrial"
            /\ trial_clock' = trial_clock /\ screen' = "letters"
            /\ response_key' = response_key /\ rt' = rt
       /\ (pc = "post" /\ response_key = None) =>
            /\ pc' = "endtrial"
            /\ screen' = "background"
            /\ IF response_key' # None
               THEN trial_clock' - FrameTicks < rt' /\ rt' <= trial_clock'
               ELSE trial_clock' = PollEnd(max_dur)]_vars

\* escape was recorded at stimulus onset; the stimulus phase ran to its end and
\* the post-stimulus loop did not run
C17_Witness ==
    /\ pc = "endtrial" /\ response_key = "escape" /\ rt = 0
    /\ trial_clock = PollEnd(StimDur) /\ screen = "letters"

\* C18: results is append-only and aligned with the trial list: its k-th record
\* has trial_index k and the load, background_type and target_present of
\* trials[k]; it has at most 40 records and gets exactly one more for each
\* completed trial; an append leaves the earlier records as they were.
C18_ResultsAligned ==
    /\ [](/\ Len(results) <= 40
          /\ \A k \in 1..Len(results) :
                /\ results[k].trial_index = k
                /\ results[k].load = trials[k].load
                /\ results[k].background_type = trials[k].background_type
                /\ results[k].target_present = int(trials[k].target_present))
    /\ [][results' # results =>
            /\ pc = "endtrial"
            /\ Len(results') = Len(results) + 1
            /\ IsPrefix(results, results')
            /\ Len(results') = i /\ i' = i + 1]_vars
    /\ [][(pc = "endtrial" /\ response_key # "escape") =>
            Len(results') = Len(results) + 1]_vars

\* the 40th record has been appended, for a trial that was answered
C18_Witness ==
    /\ Len(results) = 40 /\ i = 41
    /\ results[40].trial_index = 40 /\ results[40].response_key \in {"z", "m"}

====
